---- MODULE Spec2Model ----
(***************************************************************************)
(* Primitive arbitraries of jsverify (lib/primitive.js): the numeric       *)
(* wrapper, the integer and nat arbitraries, elements and falsy.  An       *)
(* arbitrary is constructed once, then a driver samples its generator or   *)
(* hands it a failing example, asks its shrinker for candidates and        *)
(* replaces the example by one of them.                                    *)
(*                                                                         *)
(* JavaScript numbers are modelled by integers; -0 and 0 are one value,    *)
(* as they are for === and for every comparison the code makes.            *)
(***************************************************************************)
EXTENDS Integers, Sequences, FiniteSets, TLC

\* Bounds of the model.
MaxHint == 3     \* size hints given to a generator: 0..MaxHint
MaxArg == 3      \* one-argument form: maxsize in 0..MaxArg
MaxMin == 2      \* two-argument form: minsize in -MaxMin..MaxMin
MaxSpan == 6     \* two-argument form: maxsize in minsize..minsize+MaxSpan
MaxInput == 24   \* failing examples handed to a shrinker: -MaxInput..MaxInput
MaxLen == 3      \* length of the list given to elements

VARIABLES
  phase,     \* "init", "threw", "constructed", "sampled", "shrunk"
  impl,      \* which constructor ran: "none", "integer", "nat", "elements"
  rescaled,  \* TRUE for the two-argument form of the numeric wrapper
  minsize,   \* the minsize captured by to/from (two-argument form)
  maxsize,   \* the maxsize captured by impl's closure: <<>> is undefined, <<m>> is m
  args,      \* the list passed to elements
  val,       \* the current example
  cands,     \* the candidates the shrinker returned for val (phase "shrunk")
  origin,    \* where the search started: "none", "generator", "driver"
  start,     \* the example the search started from
  steps      \* replacements made since start

vars == <<phase, impl, rescaled, minsize, maxsize, args, val, cands, origin, start, steps>>

----------------------------------------------------------------------------
\* JavaScript values and built-ins

\* The values a list given to elements is drawn from (those of falsy); NaN
\* is the one value that is not strictly equal to itself.
JSValues == {"false", "null", "undefined", "", "0", "NaN"}

\* x === y
StrictEquals(x, y) == x = y /\ x # "NaN"

\* Math.abs, Math.max
abs(x) == IF x < 0 THEN -x ELSE x

max(a, b) == IF a >= b THEN a ELSE b

\* m || size, m possibly undefined: 0 and undefined are falsy
orElse(m, size) == IF m = <<>> THEN size ELSE IF m[1] = 0 THEN size ELSE m[1]

\* Array.prototype.indexOf: index (from 0) of the first element === x, or -1
indexOf(list, x) ==
  LET hits == {p \in 1..Len(list) : StrictEquals(list[p], x)}
  IN IF hits = {} THEN -1 ELSE (CHOOSE p \in hits : \A q \in hits : p <= q) - 1

\* Array.prototype.slice(0, n), 0 <= n
slice0(list, n) == SubSeq(list, 1, n)

----------------------------------------------------------------------------
\* Collaborators (utils.js, random.js, generator.js, shrink.js)

\* utils.div2: integer halving
div2(x) == x \div 2

\* random(lo, hi): the values the random source may return
random(lo, hi) == lo..hi

\* generator.map(f): the values of the mapped generator, given those of the
\* generator (JavaScript functions are TLA+ functions on Int here)
map(values, f) == {f[x] : x \in values}

\* shrink.isomap(f, g): the mapped shrinker shrinks g(u) and maps every
\* candidate by f
isomap(shrinker, f, g, u) ==
  LET s == shrinker[g[u]]
  IN [p \in 1..Len(s) |-> f[s[p]]]

----------------------------------------------------------------------------
\* integer

integerGenerator(m, size) == LET s == orElse(m, size) IN random(-s, s)

RECURSIVE integerLoopInclusive(_, _, _, _)
integerLoopInclusive(arr, j, k, i) ==
  IF j <= i
    THEN LET k2 == max(div2(k), 1)
         IN integerLoopInclusive(arr \o <<j, -j>>, j + k2, k2, i)
    ELSE arr

RECURSIVE integerLoopLinear(_, _, _, _)
integerLoopLinear(arr, j, k, i) ==
  IF j < i
    THEN integerLoopLinear(arr \o <<j, -j>>, j + 1, 1, i)
    ELSE arr

\* the while loop of integer's shrink
RECURSIVE integerLoop(_, _, _, _)
integerLoop(arr, j, k, i) ==
  IF j < i
    THEN LET k2 == max(div2(k), 1)
         IN integerLoop(arr \o <<j, -j>>, j + k2, k2, i)
    ELSE arr

integerShrink(x) ==
  LET i == abs(x)
  IN IF i = 0
       THEN <<>>
       ELSE LET j == div2(i) IN integerLoop(<<0>>, j, max(j, 1), i)

----------------------------------------------------------------------------
\* nat

natGenerator(m, size) == LET s == orElse(m, size) IN random(0, s)

RECURSIVE natLoopInclusive(_, _, _, _)
natLoopInclusive(arr, j, k, i) ==
  IF j <= i
    THEN LET k2 == max(div2(k), 1)
         IN natLoopInclusive(Append(arr, j), j + k2, k2, i)
    ELSE arr

\* the while loop of nat's shrink
RECURSIVE natLoop(_, _, _, _)
natLoop(arr, j, k, i) ==
  IF j < i
    THEN LET k2 == max(div2(k), 1)
         IN natLoop(Append(arr, j), j + k2, k2, i)
    ELSE arr

natShrink(i) == LET j == div2(i) IN natLoop(<<>>, j, max(j, 1), i)

----------------------------------------------------------------------------
\* numeric: the two-argument form

to(x, mn) == abs(x) + mn

from(x, mn) == x - mn

numericGeneratorUnmapped(mn, m, size) == integerGenerator(m, size)

\* arb.generator.map(to)
numericGenerator(mn, m, size) ==
  map(integerGenerator(m, size), [x \in Int |-> to(x, mn)])

\* arb.shrink.isomap(to, from)
numericShrink(u, mn) ==
  isomap([x \in Int |-> integerShrink(x)],
         [x \in Int |-> to(x, mn)], [x \in Int |-> from(x, mn)], u)

----------------------------------------------------------------------------
\* elements, falsy

assertAlways(list) == TRUE

\* assert(args.length !== 0, ...)
assertNonEmpty(list) == Len(list) # 0

elementsGenerator(list) == {list[i + 1] : i \in random(0, Len(list) - 1)}

elementsShrinkInclusive(list, x) ==
  LET idx == indexOf(list, x)
  IN IF idx <= 0 THEN <<>> ELSE slice0(list, idx + 1)

elementsShrink(list, x) ==
  LET idx == indexOf(list, x)
  IN IF idx <= 0 THEN <<>> ELSE slice0(list, idx)

falsyList == <<"false", "null", "undefined", "", "0", "NaN">>

----------------------------------------------------------------------------
\* The arbitrary held by the state

\* the values generator(size) may return
generate(size) ==
  IF impl = "integer"
    THEN IF rescaled THEN numericGenerator(minsize, maxsize, size)
                     ELSE integerGenerator(maxsize, size)
    ELSE IF impl = "nat" THEN natGenerator(maxsize, size)
                         ELSE elementsGenerator(args)

\* shrink(x)
shrink(x) ==
  IF impl = "integer"
    THEN IF rescaled THEN numericShrink(x, minsize) ELSE integerShrink(x)
    ELSE IF impl = "nat" THEN natShrink(x)
                         ELSE elementsShrink(args, x)

\* the failing examples a driver may hand to the shrinker
Examples ==
  IF impl = "integer"
    THEN IF rescaled THEN minsize..(minsize + maxsize[1])
                     ELSE (-MaxInput)..MaxInput
    ELSE IF impl = "nat" THEN 0..MaxInput
                         ELSE JSValues

\* the lists a caller may pass to elements
Lists == UNION {[1..n -> JSValues] : n \in 0..MaxLen}

----------------------------------------------------------------------------
Init ==
  /\ phase = "init"
  /\ impl = "none"
  /\ rescaled = FALSE
  /\ minsize = 0
  /\ maxsize = <<>>
  /\ args = <<>>
  /\ val = 0
  /\ cands = <<>>
  /\ origin = "none"
  /\ start = 0
  /\ steps = 0

Construct(i, r, mn, m, list) ==
  /\ phase = "init"
  /\ phase' = "constructed"
  /\ impl' = i
  /\ rescaled' = r
  /\ minsize' = mn
  /\ maxsize' = m
  /\ args' = list
  /\ UNCHANGED <<val, cands, origin, start, steps>>

\* integer used as an arbitrary (extendWithDefault), or integer()
Integer0 == Construct("integer", FALSE, 0, <<>>, <<>>)

\* integer(maxsize)
Integer1(m) == Construct("integer", FALSE, 0, <<m>>, <<>>)

\* integer(minsize, maxsize)
Integer2(mn, mx) == Construct("integer", TRUE, mn, <<mx - mn>>, <<>>)

\* nat used as an arbitrary (extendWithDefault), or nat()
Nat0 == Construct("nat", FALSE, 0, <<>>, <<>>)

\* nat(maxsize)
Nat1(m) == Construct("nat", FALSE, 0, <<m>>, <<>>)

\* elements(args)
Elements(list) ==
  IF assertNonEmpty(list)
    THEN Construct("elements", FALSE, 0, <<>>, list)
    ELSE /\ phase = "init"
         /\ phase' = "threw"
         /\ impl' = "elements"
         /\ args' = list
         /\ UNCHANGED <<rescaled, minsize, maxsize, val, cands, origin, start, steps>>

\* falsy
Falsy == Elements(falsyList)

\* arb.generator(size)
Generate(size) ==
  /\ phase = "constructed"
  /\ \E x \in generate(size) :
       /\ val' = x
       /\ start' = x
  /\ phase' = "sampled"
  /\ origin' = "generator"
  /\ steps' = 0
  /\ UNCHANGED <<impl, rescaled, minsize, maxsize, args, cands>>

\* the driver takes a failing example of its own
Feed(x) ==
  /\ phase = "constructed"
  /\ val' = x
  /\ start' = x
  /\ phase' = "sampled"
  /\ origin' = "driver"
  /\ steps' = 0
  /\ UNCHANGED <<impl, rescaled, minsize, maxsize, args, cands>>

\* arb.shrink(val)
Shrink ==
  /\ phase = "sampled"
  /\ cands' = shrink(val)
  /\ phase' = "shrunk"
  /\ UNCHANGED <<impl, rescaled, minsize, maxsize, args, val, origin, start, steps>>

\* the driver replaces the example by the p-th candidate
Replace(p) ==
  /\ phase = "shrunk"
  /\ p \in 1..Len(cands)
  /\ val' = cands[p]
  /\ cands' = <<>>
  /\ steps' = steps + 1
  /\ phase' = "sampled"
  /\ UNCHANGED <<impl, rescaled, minsize, maxsize, args, origin, start>>

Next ==
  \/ Integer0
  \/ \E m \in 0..MaxArg : Integer1(m)
  \/ \E mn \in (-MaxMin)..MaxMin : \E mx \in mn..(mn + MaxSpan) : Integer2(mn, mx)
  \/ Nat0
  \/ \E m \in 0..MaxArg : Nat1(m)
  \/ \E list \in Lists : Elements(list)
  \/ Falsy
  \/ \E size \in 0..MaxHint : Generate(size)
  \/ \E x \in Examples : Feed(x)
  \/ Shrink
  \/ \E p \in 1..Len(cands) : Replace(p)

Spec == Init /\ [][Next]_vars

----------------------------------------------------------------------------
\* Properties

\* floor(log2(a)) for a >= 1
RECURSIVE Log2Floor(_)
Log2Floor(a) == IF a <= 1 THEN 0 ELSE 1 + Log2Floor(a \div 2)

\* the distance a numeric shrink search reduces: to 0, or to minsize
Distance(x) ==
  IF impl = "integer" /\ rescaled THEN x - minsize
  ELSE IF impl = "integer" THEN abs(x)
  ELSE x

IntegerShrunk == impl = "integer" /\ ~rescaled /\ phase = "shrunk"

\* C1: for every integer i the integer shrinker's candidate list is finite
\* (the loop ends, with at most one pair per magnitude below |i|), every
\* candidate c has |c| <= |i|, i is not a candidate, and for i = 0 the list
\* is empty.
C1_IntegerShrinkBounded ==
  IntegerShrunk =>
    /\ Len(cands) <= 2 * abs(val) + 1
    /\ \A p \in 1..Len(cands) : abs(cands[p]) <= abs(val) /\ cands[p] # val
    /\ (val = 0 => cands = <<>>)

C1_Witness ==
  IntegerShrunk /\ val = -6 /\ cands = <<0, 3, -3, 4, -4, 5, -5>>

\* C2: the nat shrinker returns the empty list for 0; for n > 0 it returns a
\* non-empty list of non-negative candidates, one of them below n.
C2_NatShrink ==
  (impl = "nat" /\ phase = "shrunk") =>
    /\ (val = 0 => cands = <<>>)
    /\ (val > 0 =>
          /\ cands # <<>>
          /\ \A p \in 1..Len(cands) : cands[p] >= 0
          /\ \E p \in 1..Len(cands) : cands[p] < val)

C2_Witness ==
  impl = "nat" /\ phase = "shrunk" /\ val = 7 /\ cands = <<3, 4, 5, 6>>

\* C3: every value generated by integer(minsize, maxsize), minsize <= maxsize,
\* lies in [minsize, minsize + span], span = maxsize - minsize, for every
\* size hint.
C3_RescaledRange ==
  (impl = "integer" /\ rescaled /\ origin = "generator" /\ steps = 0) =>
    val \in minsize..(minsize + maxsize[1])

\* C4: with a caller-fixed maximum m >= 0 the size hint is not used:
\* integer(m) generates in [-m, m] and nat(m) in [0, m].
C4_FixedMaximum ==
  (impl \in {"integer", "nat"} /\ ~rescaled /\ maxsize # <<>>
     /\ origin = "generator" /\ steps = 0) =>
    /\ (impl = "integer" => val \in (-maxsize[1])..maxsize[1])
    /\ (impl = "nat" => val \in 0..maxsize[1])

\* C5: for integer(minsize, maxsize), to(from(u)) = u for every generated u
\* and for every candidate the rescaled shrinker returns in a search started
\* from a generated u.
C5_RoundTrip ==
  (impl = "integer" /\ rescaled /\ origin = "generator") =>
    /\ to(from(val, minsize), minsize) = val
    /\ \A p \in 1..Len(cands) : to(from(cands[p], minsize), minsize) = cands[p]

C5_Witness ==
  /\ impl = "integer" /\ rescaled /\ origin = "generator"
  /\ minsize = -2 /\ steps = 1 /\ phase = "shrunk" /\ Len(cands) >= 3

SelfEqual(list) == \A p \in 1..Len(list) : list[p] # "NaN"

\* C6: for a non-empty list of self-equal values, the shrinker of
\* elements(list) returns nothing for the first element and for a value not
\* in the list, and otherwise exactly the elements before the first
\* occurrence of x, in order, none of them x.
C6_ElementsShrink ==
  (impl = "elements" /\ phase = "shrunk" /\ args # <<>> /\ SelfEqual(args)) =>
    LET occ == {p \in 1..Len(args) : args[p] = val}
    IN IF occ = {} \/ 1 \in occ
         THEN cands = <<>>
         ELSE \E p \in occ :
                /\ \A q \in occ : p <= q
                /\ Len(cands) = p - 1
                /\ \A q \in 1..(p - 1) : cands[q] = args[q] /\ cands[q] # val

C6_Witness ==
  /\ impl = "elements" /\ phase = "shrunk" /\ SelfEqual(args)
  /\ args = <<"false", "null", "0">> /\ val = "0" /\ cands = <<"false", "null">>

\* C7: elements with an empty list fails at construction, before an arbitrary
\* exists and with no generator or shrinker call possible afterwards;
\* elements with a non-empty list returns an arbitrary.
C7_ElementsFailsFast ==
  /\ (phase = "threw" =>
        /\ impl = "elements" /\ args = <<>>
        /\ origin = "none" /\ cands = <<>> /\ steps = 0
        /\ ~ENABLED Next)
  /\ (impl = "elements" => (args = <<>> <=> phase = "threw"))

C7_Witness == phase = "threw" /\ impl = "elements" /\ args = <<>>

\* C8: for falsy, shrinking the value at position p of its list yields
\* nothing for p = 0 and exactly the p preceding values otherwise, for each
\* of the six values, NaN included.
C8_FalsyShrink ==
  (impl = "elements" /\ args = falsyList /\ phase = "shrunk") =>
    \A p \in 1..Len(args) : args[p] = val => cands = SubSeq(args, 1, p - 1)

\* C9: for |i| = a >= 1 the integer shrinker's list is 0 followed by the
\* pairs +j, -j for strictly increasing magnitudes j from a div 2, all below
\* a, with at most 2*floor(log2 a) + 2 magnitudes and at most
\* 4*floor(log2 a) + 5 candidates.
C9_IntegerShrinkShape ==
  (IntegerShrunk /\ abs(val) >= 1) =>
    LET a == abs(val)
        n == Len(cands)
        m == (n - 1) \div 2
    IN /\ n = 2 * m + 1
       /\ m >= 1
       /\ cands[1] = 0
       /\ cands[2] = a \div 2
       /\ \A q \in 1..m : /\ cands[2 * q] >= 0
                          /\ cands[2 * q] < a
                          /\ cands[2 * q + 1] = -cands[2 * q]
       /\ \A q \in 1..(m - 1) : cands[2 * q] < cands[2 * q + 2]
       /\ m <= 2 * Log2Floor(a) + 2
       /\ n <= 4 * Log2Floor(a) + 5

C9_Witness == IntegerShrunk /\ val = 16 /\ cands = <<0, 8, -8, 12, -12, 14, -14, 15, -15>>

\* C10: a shrink search over integer, nat or integer(minsize, maxsize) makes
\* at most |i|, n or u - minsize replacements: every candidate is strictly
\* nearer to 0 (to minsize for the rescaled form) than the value shrunk, and
\* a value at distance 0 has no candidates.
C10_ShrinkSearchTerminates ==
  (impl \in {"integer", "nat"} /\ phase \in {"sampled", "shrunk"}) =>
    /\ Distance(val) >= 0
    /\ steps + Distance(val) <= Distance(start)
    /\ (phase = "shrunk" =>
          /\ \A p \in 1..Len(cands) :
               Distance(cands[p]) >= 0 /\ Distance(cands[p]) < Distance(val)
          /\ (Distance(val) = 0 => cands = <<>>))

C10_Witness ==
  /\ impl = "integer" /\ rescaled /\ phase = "shrunk"
  /\ start = minsize + 4 /\ steps = 4 /\ val = minsize /\ cands = <<>>

====
